---------------------------- MODULE Spec2Model ----------------------------
(* A model of the session channel handler of diego-ssh                     *)
(* (handlers/session_channel_handler.go): one session channel, its request *)
(* loop, the child process it launches, the background waiter and copier   *)
(* tasks, and destroy.  Strings the code formats or matches are sequences  *)
(* of one-character strings.                                               *)
EXTENDS Integers, Sequences, FiniteSets, TLC

(***************************************************************************)
(* Bounds of the model.                                                    *)
(***************************************************************************)
MaxRequests == 4

MaxModelist == 6

(***************************************************************************)
(* Strings, as sequences of characters.                                    *)
(***************************************************************************)
sEq == <<"=">>

sHOME == <<"H", "O", "M", "E">>

sUSER == <<"U", "S", "E", "R">>

sPATH == <<"P", "A", "T", "H">>

sLANG == <<"L", "A", "N", "G">>

sTERM == <<"T", "E", "R", "M">>

sPathValue ==
  <<"/", "b", "i", "n", ":", "/", "u", "s", "r", "/", "b", "i", "n">>

sLangValue == <<"e", "n", "_", "U", "S", ".", "U", "T", "F", "8">>

sXterm == <<"x", "t", "e", "r", "m">>

sA == <<"A">>

sOne == <<"1">>

sEvil == <<"/", "e", "v", "i", "l">>

\* a variable name that itself contains "="
sHomeInjected == <<"H", "O", "M", "E", "=", "/", "e", "v", "i", "l">>

sScp == <<"s", "c", "p">>

sScpArgs == <<" ", "s", "c", "p", " ", "-", "t", " ", "/", "t", "m", "p", "/", "x">>

sLs == <<"l", "s">>

\* the host process's environment, os.Getenv("HOME") and os.Getenv("USER")
HostHome == <<"/", "h", "o", "m", "e", "/", "v", "c", "a", "p">>

HostUser == <<"v", "c", "a", "p">>

\* the class \s of Go regular expressions
Whitespace == {" ", "\t", "\n", "\f", "\r"}

\* the index of the first character of s at or after i that is not whitespace
RECURSIVE SkipSpace(_, _)
SkipSpace(s, i) ==
  IF i <= Len(s) /\ s[i] \in Whitespace THEN SkipSpace(s, i + 1) ELSE i

\* scpRegex.MatchString: ^\s*scp($|\s+)
ScpMatch(s) ==
  LET i == SkipSpace(s, 1)
  IN  /\ i + 2 <= Len(s)
      /\ SubSeq(s, i, i + 2) = sScp
      /\ (i + 2 = Len(s) \/ s[i + 3] \in Whitespace)

(***************************************************************************)
(* Signal table (handlers/signals.go is not among the sources; the names   *)
(* are those of the specification, the numbers those of Linux).            *)
(***************************************************************************)
SyscallSignals ==
  [n \in {"HUP", "INT", "KILL", "USR1", "TERM"} |->
     CASE n = "HUP" -> 1 [] n = "INT" -> 2 [] n = "KILL" -> 9
       [] n = "USR1" -> 10 [] n = "TERM" -> 15]

\* a Go map read: the zero value when the key is absent
SignalLookup(name) ==
  IF name \in DOMAIN SyscallSignals THEN SyscallSignals[name] ELSE 0

(***************************************************************************)
(* Requests.                                                               *)
(***************************************************************************)
Req(type, want) ==
  [type |-> type, want |-> want, ok |-> TRUE, name |-> <<>>, value |-> <<>>,
   signal |-> "", cols |-> 0, rows |-> 0, modelist |-> <<>>, command |-> <<>>]

EnvReq(want, n, v) == [Req("env", want) EXCEPT !.name = n, !.value = v]

SignalReq(want, s) == [Req("signal", want) EXCEPT !.signal = s]

PtyReq(want, term, c, r, ml) ==
  [Req("pty-req", want) EXCEPT !.name = term, !.cols = c, !.rows = r,
                               !.modelist = ml]

WindowReq(want, c, r) ==
  [Req("window-change", want) EXCEPT !.cols = c, !.rows = r]

ExecReq(want, c) == [Req("exec", want) EXCEPT !.command = c]

NoRequest == Req("none", FALSE)

(***************************************************************************)
(* The termios modelist parser, setTerminalAttributes, one loop iteration  *)
(* at a time.  pos is the number of bytes the reader has consumed.         *)
(***************************************************************************)
\* opcodes with an entry in TermAttrSetters (the table is not among the
\* sources: these are the opcodes RFC 4254 defines)
TermAttrOpcodes ==
  (1..18) \cup (30..41) \cup (50..62) \cup (70..75) \cup (90..93) \cup {128, 129}

\* the uint32 binary.Read decodes from the four bytes after offset p, kept as
\* its big-endian bytes, most significant first
BigEndian32(m, p) == <<m[p + 1], m[p + 2], m[p + 3], m[p + 4]>>

ModeStart ==
  [pos |-> 0, done |-> FALSE, opReads |-> <<>>, valReads |-> <<>>,
   applied |-> <<>>, skipped |-> <<>>, why |-> "running"]

ModeStepNoStop(m, st) ==
  IF st.pos >= Len(m)
  THEN [st EXCEPT !.done = TRUE, !.why = "eof-opcode"]
  ELSE LET at == st.pos + 1
           opcode == m[at]
           read == [st EXCEPT !.opReads = Append(@, at)]
       IN  IF opcode = 0
           THEN [read EXCEPT !.pos = at, !.done = TRUE, !.why = "end"]
           ELSE IF Len(m) - at < 4
           THEN [read EXCEPT !.pos = Len(m), !.done = TRUE, !.why = "eof-value"]
           ELSE LET value == BigEndian32(m, at)
                    next == [read EXCEPT !.pos = at + 4,
                                         !.valReads = Append(@, at)]
                IN  IF opcode \in TermAttrOpcodes
                    THEN [next EXCEPT !.applied = Append(@, <<opcode, value>>)]
                    ELSE [next EXCEPT !.skipped = Append(@, <<opcode, value>>)]

\* one iteration of the loop of setTerminalAttributes over the modelist m
ModeStep(m, st) ==
  IF st.pos >= Len(m)
  THEN \* reading the opcode fails: break
       [st EXCEPT !.done = TRUE, !.why = "eof-opcode"]
  ELSE LET at == st.pos + 1
           opcode == m[at]
           read == [st EXCEPT !.opReads = Append(@, at)]
       IN  IF opcode = 0 \/ opcode >= 160
           THEN [read EXCEPT !.pos = at, !.done = TRUE, !.why = "end"]
           ELSE IF Len(m) - at < 4
           THEN \* reading the value fails (the reader is drained): break
                [read EXCEPT !.pos = Len(m), !.done = TRUE, !.why = "eof-value"]
           ELSE LET value == BigEndian32(m, at)
                    next == [read EXCEPT !.pos = at + 4,
                                         !.valReads = Append(@, at)]
                IN  \* TermAttrSetters[opcode].Set, then the next iteration
                    IF opcode \in TermAttrOpcodes
                    THEN [next EXCEPT !.applied = Append(@, <<opcode, value>>)]
                    ELSE [next EXCEPT !.skipped = Append(@, <<opcode, value>>)]

RECURSIVE RunModes(_, _)
\* setTerminalAttributes run to its end
RunModes(m, st) == IF st.done THEN st ELSE RunModes(m, ModeStep(m, st))

(***************************************************************************)
(* The environment of the child, session.environment.                      *)
(***************************************************************************)
\* fmt.Sprintf("%s=%s", k, v)
Sprintf(k, v) == k \o sEq \o v

\* the orders in which a range over a map with key set S may visit it
Orderings(S) ==
  {o \in [1..Cardinality(S) -> S] : \A i, j \in DOMAIN o : o[i] = o[j] => i = j}

RECURSIVE EnvEntries(_, _, _)
EnvEntries(e, ord, i) ==
  IF i > Len(ord) THEN <<>>
  ELSE (IF ord[i] # sHOME /\ ord[i] # sUSER
        THEN <<Sprintf(ord[i], e[ord[i]])>> ELSE <<>>)
       \o EnvEntries(e, ord, i + 1)

\* session.environment, the map e visited in the order ord
environment(e, ord) ==
  <<Sprintf(sPATH, sPathValue), Sprintf(sLANG, sLangValue)>>
    \o EnvEntries(e, ord, 1)
    \o <<Sprintf(sHOME, HostHome), Sprintf(sUSER, HostUser)>>

\* how the child reads an entry of its environment: NAME=value, split at the
\* first "="
RECURSIVE IndexOfEq(_, _)
IndexOfEq(s, i) ==
  IF i > Len(s) THEN 0 ELSE IF s[i] = "=" THEN i ELSE IndexOfEq(s, i + 1)

EntryName(s) ==
  IF IndexOfEq(s, 1) = 0 THEN s ELSE SubSeq(s, 1, IndexOfEq(s, 1) - 1)

EntryValue(s) ==
  IF IndexOfEq(s, 1) = 0 THEN <<>> ELSE SubSeq(s, IndexOfEq(s, 1) + 1, Len(s))

(***************************************************************************)
(* The flags of cmd/ssh-proxy and what main parses them with.              *)
(***************************************************************************)
sHttp == <<"h", "t", "t", "p", ":", "/", "/", "b", "b", "s">>

sHttps == <<"h", "t", "t", "p", "s", ":", "/", "/", "b", "b", "s">>

sBadEscape == <<"h", "t", "t", "p", ":", "/", "/", "b", "%", "z", "z">>

sNoScheme == <<":", "b", "b", "s">>

sPemKey == <<"-", "-", "-", "-", "-", "B", "E", "G", "I", "N", " ", "R", "S", "A">>

sNotPem == <<"k", "e", "y">>

HexDigits ==
  {"0", "1", "2", "3", "4", "5", "6", "7", "8", "9",
   "a", "b", "c", "d", "e", "f", "A", "B", "C", "D", "E", "F"}

\* url.Parse returns an error: a missing scheme before a leading colon, or a
\* percent sign not followed by two hexadecimal digits
UrlParseFails(u) ==
  \/ u # <<>> /\ u[1] = ":"
  \/ \E i \in DOMAIN u :
       /\ u[i] = "%"
       /\ \/ i + 2 > Len(u)
          \/ u[i + 1] \notin HexDigits
          \/ u[i + 2] \notin HexDigits

\* the Scheme of a parsed URL: what precedes the first colon
UrlScheme(u) ==
  IF \E i \in DOMAIN u : u[i] = ":"
  THEN SubSeq(u, 1, (CHOOSE i \in DOMAIN u :
                       u[i] = ":" /\ \A j \in 1..(i - 1) : u[j] # ":") - 1)
  ELSE <<>>

\* ssh.ParsePrivateKey finds a PEM block in the key
KeyParses(k) ==
  /\ Len(k) >= 10
  /\ SubSeq(k, 1, 10) = <<"-", "-", "-", "-", "-", "B", "E", "G", "I", "N">>

(***************************************************************************)
(* Exit messages, session.sendExitMessage.                                 *)
(***************************************************************************)
\* the signal names of SSHSignals (handlers/signals.go is not among the
\* sources: the inverse of SyscallSignals, as the specification says)
SSHSignalName(sig) ==
  IF \E n \in DOMAIN SyscallSignals : SyscallSignals[n] = sig
  THEN CHOOSE n \in DOMAIN SyscallSignals : SyscallSignals[n] = sig
  ELSE ""

\* an error value: nil, an *exec.ExitError with its wait status (exited with
\* a code, or signaled), an *exec.ExitError whose Sys() is no wait status
\* ("unknownStatus"), or any other error
Err(kind, code, sig, core) ==
  [kind |-> kind, code |-> code, sig |-> sig, core |-> core]

NilErr == Err("nil", 0, 0, FALSE)

OtherErr == Err("other", 0, 0, FALSE)

\* what Wait can return for a child that ended
ExitResults ==
  {NilErr, Err("exited", 3, 0, FALSE), Err("signaled", 0, 15, FALSE), OtherErr}

\* a request sent on the channel: the Error and Lang of an exit-signal are left
\* empty, and every SendRequest passes wantReply false
Msg(kind, status, signal, core) ==
  [kind |-> kind, status |-> status, signal |-> signal, core |-> core,
   error |-> "", lang |-> "", want |-> FALSE]

CloseEvent == Msg("close", 0, "", FALSE)

ExitMessageStatusOnly(err) ==
  CASE err.kind = "nil" -> Msg("exit-status", 0, "", FALSE)
    [] err.kind = "other" -> Msg("exit-status", 255, "", FALSE)
    [] err.kind = "unknownStatus" -> Msg("exit-status", 255, "", FALSE)
    [] err.kind = "signaled" -> Msg("exit-status", 255, "", FALSE)
    [] err.kind = "exited" -> Msg("exit-status", err.code, "", FALSE)

\* the request sendExitMessage sends for the error err
ExitMessage(err) ==
  CASE err.kind = "nil" -> Msg("exit-status", 0, "", FALSE)
    [] err.kind = "other" -> Msg("exit-status", 255, "", FALSE)
    [] err.kind = "unknownStatus" -> Msg("exit-status", 255, "", FALSE)
    [] err.kind = "signaled" ->
         Msg("exit-signal", 0, SSHSignalName(err.sig), err.core)
    [] err.kind = "exited" -> Msg("exit-status", err.code, "", FALSE)

IsExit(m) == m.kind \in {"exit-status", "exit-signal"}

(***************************************************************************)
(* The session.                                                            *)
(***************************************************************************)
VARIABLES
  pc,          \* the position of the request loop ("main") and of the waiter
  cur,         \* the request being handled, or the last one handled
  handled,     \* the number of requests received
  obs,         \* what handling cur has done so far
  streamEnded, \* the request stream is closed (the peer closed the channel)
  env, command, cmd, allocPty, ptyRequest, ptyMaster, complete, wg, mutex,
  child,       \* the child process and, once it ended, what Wait returns
  exitErr,     \* the error handed to sendExitMessage
  copiers,     \* the background copier tasks
  chanLog,     \* what the server did on the channel, in order
  hist,        \* counters of the operations performed
  winsize,     \* the window size of the PTY master
  termios,     \* the attributes applied to the PTY
  panicked,    \* the process died of a nil dereference
  ml, mst,     \* a modelist and the parser's state on it
  other,       \* a second session of the same handler, and who wrote the map
  proc,        \* the ssh-proxy process: its flags, where main is, its exit
  plugin       \* a run of the cf CLI plugin: its arguments and what it did

vars ==
  <<pc, cur, handled, obs, streamEnded, env, command, cmd, allocPty,
    ptyRequest, ptyMaster, complete, wg, mutex, child, exitErr, copiers,
    chanLog, hist, winsize, termios, panicked, ml, mst, other, proc, plugin>>

sessVars ==
  <<pc, cur, handled, obs, streamEnded, env, command, cmd, allocPty,
    ptyRequest, ptyMaster, complete, wg, mutex, child, exitErr, copiers,
    chanLog, hist, winsize, termios, panicked, other, proc, plugin>>

NoObs ==
  [replies |-> <<>>, signals |-> <<>>, delivered |-> <<>>, scp |-> <<>>,
   starts |-> 0, spawned |-> 0, created |-> FALSE, hadCommand |-> FALSE,
   exits |-> 0, destroys |-> 0, ioctls |-> <<>>, childWas |-> "none"]

\* handler.defaultEnv, the map a new session starts with
DefaultEnv == [k \in {} |-> <<>>]

\* a second session made by the same handler's newSession.  Its env field is
\* handler.defaultEnv, the very map the first session's env field is: the
\* variable env is that one map.  wrote and firstWrote are the names each
\* session's requests wrote, writers the mutexes under which the map was
\* written.
InitOther ==
  [pc |-> "loop", cur |-> NoRequest, handled |-> 0, command |-> "nil",
   cmdEnv |-> <<>>, wrote |-> {}, firstWrote |-> {}, writers |-> {}]

\* the flags of a process that starts up
GoodFlags ==
  [bbsAddress |-> sHttp, ccAPIURL |-> <<>>, hostKey |-> sPemKey,
   enableCFAuth |-> FALSE, enableDiegoAuth |-> TRUE, secureClientOk |-> TRUE,
   debugAddr |-> FALSE]

\* the process at the beginning of main with flags f
ProcStart(f) ==
  [pc |-> "main", flags |-> f, authens |-> <<>>, configErr |-> FALSE,
   configured |-> FALSE, built |-> FALSE, members |-> <<>>, running |-> FALSE,
   exit |-> -1, how |-> "none"]

\* the process serving connections: sessions exist in such a process
ProcServing ==
  [ProcStart(GoodFlags) EXCEPT
     !.pc = "serving", !.authens = <<"diego">>, !.configured = TRUE,
     !.built = TRUE, !.members = <<"ssh-proxy">>, !.running = TRUE]

\* the plugin is a program of its own: beside the server none is running
PluginIdle ==
  [pc |-> "idle", args |-> <<>>, op |-> "none", out |-> <<>>, exit |-> -1]

\* no session channel has been served yet
InitFields ==
  /\ other = InitOther
  /\ pc = [main |-> "loop", waiter |-> "none"]
  /\ cur = NoRequest
  /\ handled = 0
  /\ obs = NoObs
  /\ streamEnded = FALSE
  /\ env = DefaultEnv
  /\ command = "nil"
  /\ cmd = [args |-> <<>>, env |-> <<>>]
  /\ allocPty = FALSE
  /\ ptyRequest = [term |-> <<>>, cols |-> 0, rows |-> 0, modelist |-> <<>>]
  /\ ptyMaster = "nil"
  /\ complete = FALSE
  /\ wg = 0
  /\ mutex = "free"
  /\ child = [state |-> "none", result |-> NilErr]
  /\ exitErr = NilErr
  /\ copiers = [toStdin |-> "none", toPty |-> "none", fromPty |-> "none"]
  /\ chanLog = <<>>
  /\ hist = [chanCloses |-> 0, ptyCloses |-> 0, destroys |-> 0, creates |-> 0,
             starts |-> 0, eofs |-> 0, closer |-> "none", sawPty |-> FALSE,
             lastSize |-> <<0, 0>>, settledSize |-> <<0, 0>>]
  /\ winsize = <<0, 0>>
  /\ termios = <<>>
  /\ panicked = FALSE

InitSession ==
  /\ proc = ProcServing
  /\ plugin = PluginIdle
  /\ InitFields

Init ==
  /\ InitSession
  /\ ml = <<>>
  /\ mst = ModeStart

\* ssh.Request.Reply: sends a reply only for a request that wants one
Reply(o, req, ok) ==
  IF req.want THEN [o EXCEPT !.replies = Append(@, ok)] ELSE o

\* the map m with m[k] = v
MapSet(m, k, v) ==
  [x \in DOMAIN m \cup {k} |-> IF x = k THEN v ELSE m[x]]

\* the record o of the two sessions after the map was written at key k under
\* the mutex of session who
MapWritten(o, who, k) ==
  [o EXCEPT !.writers = @ \cup {who},
            !.wrote = IF who = "other" THEN @ \cup {k} ELSE @,
            !.firstWrote = IF who = "session" THEN @ \cup {k} ELSE @]

\* whether a write of the map by the first session can crash the process: it
\* can when the second session is in the middle of its own write of the same
\* map (the two hold different mutexes; Go's runtime may detect concurrent
\* map writes and abort, or not)
MapRace(o) == IF o.pc = "writing" THEN BOOLEAN ELSE {FALSE}

\* uint16(n), as setWindowSize converts columns and rows
Uint16(n) == n % 65536

(***************************************************************************)
(* The request loop, session.serviceRequests.                              *)
(***************************************************************************)
\* the history h once request r is received while the PTY master is master:
\* lastSize is the size of the last pty-req, or window-change after a
\* pty-req; settledSize is the same without the pty-req requests received
\* once a PTY master exists
SizeSeen(h, r, master) ==
  IF r.ok /\ r.type = "pty-req"
  THEN [h EXCEPT !.sawPty = TRUE,
                 !.lastSize = <<r.cols, r.rows>>,
                 !.settledSize = IF master = "nil" THEN <<r.cols, r.rows>>
                                 ELSE @]
  ELSE IF r.ok /\ r.type = "window-change" /\ h.sawPty
  THEN [h EXCEPT !.lastSize = <<r.cols, r.rows>>,
                 !.settledSize = <<r.cols, r.rows>>]
  ELSE h

\* a request arrives on the stream
Receive(menu) ==
  /\ ~panicked
  /\ pc.main = "loop"
  /\ ~streamEnded
  /\ handled < MaxRequests
  /\ \E r \in menu :
       /\ cur' = r
       /\ obs' = [NoObs EXCEPT !.hadCommand = (command # "nil")]
       /\ hist' = SizeSeen(hist, r, ptyMaster)
  /\ handled' = handled + 1
  /\ pc' = [pc EXCEPT !.main = "dispatch"]
  /\ UNCHANGED <<streamEnded, env, command, cmd, allocPty, ptyRequest,
                 ptyMaster, complete, wg, mutex, child, exitErr, copiers,
                 chanLog, winsize, termios, panicked, ml, mst, other, proc, plugin>>

\* the stream ends: the loop is left and the deferred destroy runs
StreamEnd ==
  /\ ~panicked
  /\ pc.main = "loop"
  /\ ~streamEnded
  /\ streamEnded' = TRUE
  /\ pc' = [pc EXCEPT !.main = "destroy"]
  /\ UNCHANGED <<cur, handled, obs, env, command, cmd, allocPty, ptyRequest,
                 ptyMaster, complete, wg, mutex, child, exitErr, copiers,
                 chanLog, hist, winsize, termios, panicked, ml, mst, other, proc, plugin>>

Dispatching(type) ==
  /\ ~panicked
  /\ pc.main = "dispatch"
  /\ cur.type = type

KnownTypes == {"env", "signal", "pty-req", "window-change", "exec", "shell"}

UnknownReplyTrue(o, req) == IF req.want THEN Reply(o, req, TRUE) ELSE o

\* the default branch of the switch
UnknownReply(o, req) == IF req.want THEN Reply(o, req, FALSE) ELSE o

HandleUnknown ==
  /\ ~panicked
  /\ pc.main = "dispatch"
  /\ cur.type \notin KnownTypes
  /\ obs' = UnknownReply(obs, cur)
  /\ pc' = [pc EXCEPT !.main = "loop"]
  /\ UNCHANGED <<cur, handled, streamEnded, env, command, cmd, allocPty,
                 ptyRequest, ptyMaster, complete, wg, mutex, child, exitErr,
                 copiers, chanLog, hist, winsize, termios, panicked, ml, mst, other, proc, plugin>>

UnmarshalFailedSilent(o, req) == o

\* a payload that ssh.Unmarshal rejects, in the signal, pty-req, window-change
\* and exec handlers: the request is refused when it wants a reply
UnmarshalFailed(o, req) == IF req.want THEN Reply(o, req, FALSE) ELSE o

HandleEnvironmentRequest ==
  /\ Dispatching("env")
  /\ IF ~cur.ok
     THEN /\ obs' = Reply(obs, cur, FALSE)
          /\ env' = env
     ELSE /\ mutex = "free"
          /\ env' = MapSet(env, cur.name, cur.value)
          /\ obs' = IF cur.want THEN Reply(obs, cur, TRUE) ELSE obs
  /\ other' = IF cur.ok THEN MapWritten(other, "session", cur.name) ELSE other
  /\ \E crash \in MapRace(other) : panicked' = (cur.ok /\ crash)
  /\ pc' = [pc EXCEPT !.main = "loop"]
  /\ UNCHANGED <<cur, handled, streamEnded, command, cmd, allocPty,
                 ptyRequest, ptyMaster, complete, wg, mutex, child, exitErr,
                 copiers, chanLog, hist, winsize, termios, ml, mst, proc, plugin>>

SignalLookupTerm(name) == IF name = "" THEN 0 ELSE SyscallSignals["TERM"]

\* the signal handleSignalRequest hands to the runner
SignalFor(name) == SignalLookup(name)

\* whether handleSignalRequest invokes runner.Signal: the session has a
\* command
SignalInvoked(c, name) == c # "nil"

HandleSignalRequest ==
  /\ Dispatching("signal")
  /\ IF ~cur.ok
     THEN /\ obs' = UnmarshalFailed(obs, cur)
          /\ pc' = [pc EXCEPT !.main = "loop"]
          /\ panicked' = panicked
     ELSE /\ mutex = "free"
          /\ IF SignalInvoked(command, cur.signal)
             THEN LET sig == SignalFor(cur.signal)
                      called == [obs EXCEPT !.signals = Append(@, sig),
                                            !.childWas = child.state]
                  IN  IF command = "unstarted"
                      THEN \* commandRunner.Signal: cmd.Process is nil
                           /\ obs' = called
                           /\ panicked' = TRUE
                           /\ pc' = pc
                      ELSE /\ obs' =
                                LET sent ==
                                      IF child.state = "running" /\ sig # 0
                                      THEN [called EXCEPT
                                              !.delivered = Append(@, sig)]
                                      ELSE called
                                IN  IF cur.want THEN Reply(sent, cur, TRUE)
                                    ELSE sent
                           /\ panicked' = panicked
                           /\ pc' = [pc EXCEPT !.main = "loop"]
             ELSE /\ obs' = (IF cur.want THEN Reply(obs, cur, TRUE) ELSE obs)
                  /\ panicked' = panicked
                  /\ pc' = [pc EXCEPT !.main = "loop"]
  /\ UNCHANGED <<cur, handled, streamEnded, env, command, cmd, allocPty,
                 ptyRequest, ptyMaster, complete, wg, mutex, child, exitErr,
                 copiers, chanLog, hist, winsize, termios, ml, mst, other, proc, plugin>>

HandlePtyRequest ==
  /\ Dispatching("pty-req")
  /\ IF ~cur.ok
     THEN /\ obs' = UnmarshalFailed(obs, cur)
          /\ UNCHANGED <<allocPty, ptyRequest, env>>
     ELSE /\ mutex = "free"
          /\ allocPty' = TRUE
          /\ ptyRequest' = [term |-> cur.name, cols |-> cur.cols,
                            rows |-> cur.rows, modelist |-> cur.modelist]
          /\ env' = MapSet(env, sTERM, cur.name)
          /\ obs' = (IF cur.want THEN Reply(obs, cur, TRUE) ELSE obs)
  /\ other' = IF cur.ok THEN MapWritten(other, "session", sTERM) ELSE other
  /\ \E crash \in MapRace(other) : panicked' = (cur.ok /\ crash)
  /\ pc' = [pc EXCEPT !.main = "loop"]
  /\ UNCHANGED <<cur, handled, streamEnded, command, cmd, ptyMaster, complete,
                 wg, mutex, child, exitErr, copiers, chanLog, hist, winsize,
                 termios, ml, mst, proc, plugin>>

WindowStoredStale(alloc, pr, req) == pr

\* the stored PTY request after a window-change: the size is taken over when
\* a PTY was requested
WindowStored(alloc, pr, req) ==
  IF alloc THEN [pr EXCEPT !.cols = req.cols, !.rows = req.rows] ELSE pr

HandleWindowChangeRequest ==
  /\ Dispatching("window-change")
  /\ IF ~cur.ok
     THEN /\ obs' = UnmarshalFailed(obs, cur)
          /\ UNCHANGED <<ptyRequest, winsize>>
     ELSE /\ mutex = "free"
          /\ ptyRequest' = WindowStored(allocPty, ptyRequest, cur)
          /\ IF ptyMaster # "nil"
             THEN \* setWindowSize; on a closed file the ioctl fails
                  /\ winsize' = IF ptyMaster = "open"
                                THEN <<Uint16(ptyRequest'.cols),
                                       Uint16(ptyRequest'.rows)>>
                                ELSE winsize
                  /\ obs' = LET o == [obs EXCEPT !.ioctls =
                                        Append(@, <<ptyRequest'.cols,
                                                    ptyRequest'.rows,
                                                    ptyMaster>>)]
                            IN  IF cur.want THEN Reply(o, cur, TRUE) ELSE o
             ELSE /\ winsize' = winsize
                  /\ obs' = (IF cur.want THEN Reply(obs, cur, TRUE) ELSE obs)
  /\ pc' = [pc EXCEPT !.main = "loop"]
  /\ UNCHANGED <<cur, handled, streamEnded, env, command, cmd, allocPty,
                 ptyMaster, complete, wg, mutex, child, exitErr, copiers,
                 chanLog, hist, termios, panicked, ml, mst, other, proc, plugin>>

(***************************************************************************)
(* exec and shell: handleExecRequest, handleShellRequest, executeShell.    *)
(***************************************************************************)
\* whether handleExecRequest goes on to executeShell after its SCP dispatch:
\* it has no return after HandleSCPRequest
ExecRunsShell(matched) == TRUE

\* what the injected SCPHandler does with the request it is handed: it
\* leaves it alone, or replies to it with true or with false
ScpOutcomes == {"silent", "true", "false"}

\* HandleSCPRequest(request, command) with outcome r
ScpHandled(o, req, r) ==
  LET called == [o EXCEPT !.scp = Append(@, req.command)]
  IN  IF r = "silent" THEN called ELSE Reply(called, req, r = "true")

\* handleExecRequest with an SCP handler that behaves as one of outcomes
HandleExec(outcomes) ==
  /\ Dispatching("exec")
  /\ IF ~cur.ok
     THEN /\ obs' = UnmarshalFailed(obs, cur)
          /\ pc' = [pc EXCEPT !.main = "loop"]
     ELSE LET matched == ScpMatch(cur.command)
          IN  /\ \E r \in outcomes :
                   obs' = IF matched THEN ScpHandled(obs, cur, r) ELSE obs
              /\ pc' = [pc EXCEPT !.main = IF ExecRunsShell(matched)
                                           THEN "executeShell" ELSE "loop"]
  /\ UNCHANGED <<cur, handled, streamEnded, env, command, cmd, allocPty,
                 ptyRequest, ptyMaster, complete, wg, mutex, child, exitErr,
                 copiers, chanLog, hist, winsize, termios, panicked, ml, mst, other, proc, plugin>>

\* handleExecRequest with an SCP handler that leaves the reply to the session
HandleExecRequest == HandleExec({"silent"})

HandleShellRequest ==
  /\ Dispatching("shell")
  /\ pc' = [pc EXCEPT !.main = "executeShell"]
  /\ UNCHANGED <<cur, handled, obs, streamEnded, env, command, cmd, allocPty,
                 ptyRequest, ptyMaster, complete, wg, mutex, child, exitErr,
                 copiers, chanLog, hist, winsize, termios, panicked, ml, mst, other, proc, plugin>>

\* how launching the child can end: it starts, or opening the PTY (the stdin
\* pipe, without a PTY) fails, or runner.Start fails
Launches == {"ok", "openFail", "startFail"}

CommandAlwaysFree(c) == TRUE

\* createCommand's check: no command has been created yet
CommandFree(c) == c = "nil"

\* the arguments executeShell is called with
ShellArgs(req) == IF req.type = "exec" THEN <<<<"-", "c">>, req.command>> ELSE <<>>

LaunchFailureSkipsExit == "destroy"

\* what executeShell does first when the launch failed
LaunchFailureNext == "sendExit"

LaunchNeverFailed(launch) == FALSE

\* executeShell's test of the error run or runWithPty returned
LaunchFailed(launch) == launch # "ok"

\* executeShell, from taking the mutex to releasing it and, when the launch
\* succeeded, starting the waiter task
ExecuteShell ==
  /\ ~panicked
  /\ pc.main = "executeShell"
  /\ mutex = "free"
  /\ IF ~CommandFree(command)
     THEN /\ obs' = (IF cur.want THEN Reply(obs, cur, FALSE) ELSE obs)
          /\ pc' = [pc EXCEPT !.main = "loop"]
          /\ UNCHANGED <<command, cmd, ptyMaster, wg, child, exitErr, copiers,
                         hist, winsize, termios>>
     ELSE \E ord \in Orderings(DOMAIN env), launch \in Launches :
            LET opened == launch # "openFail"
                started == launch = "ok"
            IN  /\ cmd' = [args |-> ShellArgs(cur),
                           env |-> environment(env, ord)]
                /\ command' = IF started THEN "started" ELSE "unstarted"
                /\ obs' =
                     LET o == IF cur.want THEN Reply(obs, cur, TRUE) ELSE obs
                     IN  [o EXCEPT !.created = TRUE,
                                   !.starts = IF opened THEN @ + 1 ELSE @,
                                   !.spawned = IF started THEN @ + 1 ELSE @]
                /\ hist' = [hist EXCEPT
                              !.creates = @ + 1,
                              !.starts = IF started THEN @ + 1 ELSE @]
                /\ IF allocPty /\ opened
                   THEN \* runWithPty, the PTY pair opened
                        /\ ptyMaster' = "open"
                        /\ termios' =
                             RunModes(ptyRequest.modelist, ModeStart).applied
                        /\ winsize' = <<Uint16(ptyRequest.cols),
                                        Uint16(ptyRequest.rows)>>
                        /\ wg' = wg + 1
                        /\ copiers' = [copiers EXCEPT !.toPty = "running",
                                                      !.fromPty = "running"]
                   ELSE \* run; or pty.Open failed
                        /\ copiers' = IF ~allocPty /\ opened
                                      THEN [copiers EXCEPT
                                              !.toStdin = "running"]
                                      ELSE copiers
                        /\ UNCHANGED <<ptyMaster, termios, winsize, wg>>
                /\ child' = IF started
                            THEN [child EXCEPT !.state = "running"]
                            ELSE child
                /\ IF LaunchFailed(launch)
                   THEN /\ exitErr' = OtherErr
                        /\ pc' = [pc EXCEPT !.main = LaunchFailureNext]
                   ELSE /\ exitErr' = exitErr
                        /\ pc' = [pc EXCEPT !.main = "loop",
                                            !.waiter = "wait"]
  /\ UNCHANGED <<cur, handled, streamEnded, env, allocPty, ptyRequest,
                 complete, mutex, chanLog, panicked, ml, mst, other, proc, plugin>>

\* session.sendExitMessage, called by task t
SendExitMessage(t) ==
  /\ ~panicked
  /\ pc[t] = "sendExit"
  /\ chanLog' = Append(chanLog, ExitMessage(exitErr))
  /\ obs' = IF t = "main" THEN [obs EXCEPT !.exits = @ + 1] ELSE obs
  /\ pc' = [pc EXCEPT ![t] = "destroy"]
  /\ UNCHANGED <<cur, handled, streamEnded, env, command, cmd, allocPty,
                 ptyRequest, ptyMaster, complete, wg, mutex, child, exitErr,
                 copiers, hist, winsize, termios, panicked, ml, mst, other, proc, plugin>>

WaitNeverBlocks(ch) == TRUE

\* runner.Wait returns once the child has ended
WaitReturns(ch) == ch.state = "exited"

\* session.wait in the waiter task
Wait ==
  /\ ~panicked
  /\ pc.waiter = "wait"
  /\ WaitReturns(child)
  /\ exitErr' = child.result
  /\ pc' = [pc EXCEPT !.waiter = "sendExit"]
  /\ UNCHANGED <<cur, handled, obs, streamEnded, env, command, cmd, allocPty,
                 ptyRequest, ptyMaster, complete, wg, mutex, child, copiers,
                 chanLog, hist, winsize, termios, panicked, ml, mst, other, proc, plugin>>

\* the child process ends with one of results
ChildExits(results) ==
  /\ ~panicked
  /\ child.state = "running"
  /\ \E r \in results : child' = [state |-> "exited", result |-> r]
  /\ UNCHANGED <<pc, cur, handled, obs, streamEnded, env, command, cmd,
                 allocPty, ptyRequest, ptyMaster, complete, wg, mutex,
                 exitErr, copiers, chanLog, hist, winsize, termios, panicked,
                 ml, mst, other, proc, plugin>>

ChildExit == ChildExits(ExitResults)

(***************************************************************************)
(* session.destroy, called by task t.                                      *)
(***************************************************************************)
\* where task t goes on after destroy
AfterDestroy(t) ==
  IF t = "waiter" \/ streamEnded THEN "done" ELSE "loop"

NeverComplete(done) == FALSE

\* destroy's early return
AlreadyComplete(done) == done

\* destroy takes the mutex and returns at once when the session is complete
DestroyLock(t) ==
  /\ ~panicked
  /\ pc[t] = "destroy"
  /\ mutex = "free"
  /\ obs' = IF t = "main" /\ ~streamEnded
            THEN [obs EXCEPT !.destroys = @ + 1] ELSE obs
  /\ IF AlreadyComplete(complete)
     THEN /\ pc' = [pc EXCEPT ![t] = AfterDestroy(t)]
          /\ hist' = [hist EXCEPT !.destroys = @ + 1]
          /\ mutex' = mutex
     ELSE /\ pc' = [pc EXCEPT ![t] = "destroying"]
          /\ mutex' = t
          /\ hist' = hist
  /\ UNCHANGED <<cur, handled, streamEnded, env, command, cmd, allocPty,
                 ptyRequest, ptyMaster, complete, wg, child, exitErr, copiers,
                 chanLog, winsize, termios, panicked, ml, mst, other, proc, plugin>>

WaitGroupSkipped(n) == TRUE

\* sess.wg.Wait() returns
WaitGroupDrained(n) == n = 0

\* the wait group is drained: complete is set, the channel and the PTY master
\* are closed, the mutex is released
DestroyFinish(t) ==
  /\ ~panicked
  /\ pc[t] = "destroying"
  /\ WaitGroupDrained(wg)
  /\ complete' = TRUE
  /\ chanLog' = Append(chanLog, CloseEvent)
  /\ ptyMaster' = IF ptyMaster # "nil" THEN "closed" ELSE ptyMaster
  /\ hist' = [hist EXCEPT !.chanCloses = @ + 1,
                          !.ptyCloses = IF ptyMaster # "nil" THEN @ + 1 ELSE @,
                          !.destroys = @ + 1,
                          !.closer = IF t = "waiter" THEN "waiter"
                                     ELSE IF streamEnded THEN "loop-end"
                                     ELSE "launch-failure"]
  /\ mutex' = "free"
  /\ pc' = [pc EXCEPT ![t] = AfterDestroy(t)]
  /\ UNCHANGED <<cur, handled, obs, streamEnded, env, command, cmd, allocPty,
                 ptyRequest, wg, child, exitErr, copiers, winsize, termios,
                 panicked, ml, mst, other, proc, plugin>>

(***************************************************************************)
(* The copier tasks (helpers.Copy and helpers.CopyAndClose are not among   *)
(* the sources: they return when the source ends or a write fails).        *)
(***************************************************************************)
\* the PTY master reads end of file (or the channel refuses the write): the
\* copier leaves the wait group
CopierFromPtyDone ==
  /\ ~panicked
  /\ copiers.fromPty = "running"
  /\ child.state # "running" \/ streamEnded
  /\ wg' = wg - 1
  /\ copiers' = [copiers EXCEPT !.fromPty = "closeWrite"]
  /\ UNCHANGED <<pc, cur, handled, obs, streamEnded, env, command, cmd,
                 allocPty, ptyRequest, ptyMaster, complete, mutex, child,
                 exitErr, chanLog, hist, winsize, termios, panicked, ml, mst, other, proc, plugin>>

\* channel.CloseWrite after the copy from the PTY master
CopierFromPtyCloseWrite ==
  /\ ~panicked
  /\ copiers.fromPty = "closeWrite"
  /\ copiers' = [copiers EXCEPT !.fromPty = "done"]
  /\ hist' = [hist EXCEPT !.eofs = @ + 1]
  /\ UNCHANGED <<pc, cur, handled, obs, streamEnded, env, command, cmd,
                 allocPty, ptyRequest, ptyMaster, complete, wg, mutex, child,
                 exitErr, chanLog, winsize, termios, panicked, ml, mst, other, proc, plugin>>

\* a copier from the channel to the child (c is toPty or toStdin) returns:
\* the channel is closed, or the child's side no longer takes the data
CopierToChildDone(c) ==
  /\ ~panicked
  /\ copiers[c] = "running"
  /\ streamEnded \/ complete \/ child.state # "running"
  /\ copiers' = [copiers EXCEPT ![c] = "done"]
  /\ UNCHANGED <<pc, cur, handled, obs, streamEnded, env, command, cmd,
                 allocPty, ptyRequest, ptyMaster, complete, wg, mutex, child,
                 exitErr, chanLog, hist, winsize, termios, panicked, ml, mst, other, proc, plugin>>

(***************************************************************************)
(* The specification of one session.                                       *)
(***************************************************************************)
sModes == <<1, 0, 0, 0, 3, 0>>

SessionRequests ==
  {Req("shell", TRUE), Req("shell", FALSE),
   ExecReq(TRUE, sLs), ExecReq(TRUE, sScpArgs),
   SignalReq(TRUE, "USR1"), SignalReq(FALSE, "USR1"), SignalReq(TRUE, "BOGUS"),
   WindowReq(TRUE, 132, 40),
   PtyReq(TRUE, sXterm, 80, 24, sModes),
   EnvReq(TRUE, sA, sOne),
   Req("bogus", TRUE), Req("bogus", FALSE)}

Next ==
  \/ Receive(SessionRequests)
  \/ StreamEnd
  \/ HandleUnknown
  \/ HandleEnvironmentRequest
  \/ HandleSignalRequest
  \/ HandlePtyRequest
  \/ HandleWindowChangeRequest
  \/ HandleExecRequest
  \/ HandleShellRequest
  \/ ExecuteShell
  \/ SendExitMessage("main")
  \/ SendExitMessage("waiter")
  \/ Wait
  \/ ChildExit
  \/ DestroyLock("main")
  \/ DestroyLock("waiter")
  \/ DestroyFinish("main")
  \/ DestroyFinish("waiter")
  \/ CopierFromPtyDone
  \/ CopierFromPtyCloseWrite
  \/ CopierToChildDone("toPty")
  \/ CopierToChildDone("toStdin")

Spec == Init /\ [][Next]_vars

(***************************************************************************)
(* Properties of one session.                                              *)
(***************************************************************************)
ExitIndexes == {i \in DOMAIN chanLog : IsExit(chanLog[i])}

CloseIndexes == {i \in DOMAIN chanLog : chanLog[i] = CloseEvent}

\* C1: destroy is idempotent.  However many destroy calls run and however
\* they interleave, the channel is closed at most once and exactly once when
\* the session is complete, the PTY master is closed exactly once if one was
\* opened and never otherwise, and complete, once true, stays true.
DestroyIdempotent ==
  /\ [](/\ hist.chanCloses <= 1
        /\ hist.ptyCloses <= 1
        /\ complete <=> hist.chanCloses = 1
        /\ complete /\ ptyMaster # "nil" =>
             ptyMaster = "closed" /\ hist.ptyCloses = 1
        /\ ptyMaster # "closed" => hist.ptyCloses = 0)
  /\ [][complete => complete']_vars

\* two destroy calls have returned on a session that had opened a PTY
DestroyedTwiceWithPty ==
  /\ hist.destroys >= 2
  /\ complete
  /\ hist.ptyCloses = 1
  /\ hist.chanCloses = 1

\* C2, as claimed: a session that created a command sends exactly one exit
\* message, and sends it before the channel is closed.
ExitBeforeCloseAlways ==
  /\ Cardinality(ExitIndexes) <= 1
  /\ hist.creates > 0 /\ CloseIndexes # {} =>
       \E i \in ExitIndexes : \A j \in CloseIndexes : i < j

\* C2, amended: a session that created a command sends at most one exit
\* message, and exactly one once its launch failed or its waiter's Wait
\* returned and sendExitMessage ran; the message precedes the close whenever
\* the channel is closed by the destroy of the task that sent it (the
\* launch-failure path or the waiter), and a message that follows the close
\* follows a close made by the request loop's destroy at the end of the
\* stream.
ExitOnceBeforeOwnClose ==
  /\ Cardinality(ExitIndexes) <= 1
  /\ hist.creates = 0 => ExitIndexes = {}
  /\ pc.waiter \in {"destroy", "destroying", "done"} =>
       Cardinality(ExitIndexes) = 1
  /\ command = "unstarted" /\ pc.main # "sendExit" =>
       Cardinality(ExitIndexes) = 1
  /\ hist.closer \in {"launch-failure", "waiter"} =>
       \E i \in ExitIndexes : \A j \in CloseIndexes : i < j
  /\ (\E i \in ExitIndexes : \E j \in CloseIndexes : j < i) =>
       hist.closer = "loop-end" /\ streamEnded

\* the exit message was sent, then the sender's destroy closed the channel
ExitThenOwnClose ==
  /\ hist.closer \in {"launch-failure", "waiter"}
  /\ Cardinality(ExitIndexes) = 1
  /\ CloseIndexes # {}

\* the request loop ended first: the exit message came after the close
ExitAfterLoopEndClose ==
  /\ hist.closer = "loop-end"
  /\ \E i \in ExitIndexes : \E j \in CloseIndexes : j < i

\* C3: for a child whose Start succeeded, an exit message is sent only after
\* Wait on that child has returned (the child has ended and the waiter is
\* past session.wait), and no channel request of the server follows it.
ExitAfterWaitAndLast ==
  command = "started" =>
    \A i \in ExitIndexes :
      /\ child.state = "exited"
      /\ pc.waiter \in {"destroy", "destroying", "done"}
      /\ \A j \in DOMAIN chanLog : j > i => ~IsExit(chanLog[j])

\* a started child has ended and its exit message is on the channel
StartedChildExitSent ==
  /\ command = "started"
  /\ Cardinality(ExitIndexes) = 1
  /\ child.state = "exited"

\* C4: at most one command is ever created; a shell or exec request that
\* arrives when a command exists is replied false if it wants a reply and
\* never true, creates no command, calls Start on nothing, and makes the
\* request loop send no exit message and call no destroy.
OneCommandOnly ==
  /\ hist.creates <= 1
  /\ hist.starts <= 1
  /\ cur.type \in {"shell", "exec"} /\ cur.ok /\ obs.hadCommand =>
       /\ ~obs.created
       /\ obs.starts = 0
       /\ obs.spawned = 0
       /\ obs.exits = 0
       /\ obs.destroys = 0
       /\ pc.main \in {"dispatch", "executeShell", "loop", "destroy",
                       "destroying", "done"}
       /\ pc.main \in {"destroy", "destroying"} => streamEnded
       /\ pc.main \in {"dispatch", "executeShell"} => obs.replies = <<>>
       /\ pc.main \notin {"dispatch", "executeShell"} =>
            obs.replies = IF cur.want THEN <<FALSE>> ELSE <<>>

\* a second shell or exec request that wanted a reply has been refused
SecondCommandRefused ==
  /\ cur.type \in {"shell", "exec"}
  /\ cur.ok
  /\ obs.hadCommand
  /\ pc.main = "loop"
  /\ obs.replies = <<FALSE>>

Handled == pc.main # "dispatch"

\* C5: an exec request whose command matches the SCP pattern is handed to
\* the SCP handler with that command, and no shell process is created or
\* started for it.
ScpDispatchIsTerminal ==
  cur.type = "exec" /\ cur.ok /\ ScpMatch(cur.command) /\ Handled =>
    /\ obs.scp = <<cur.command>>
    /\ ~obs.created
    /\ obs.starts = 0
    /\ obs.spawned = 0

\* C6: a signal request whose name SyscallSignals maps, handled while the
\* child is running, has the runner called once with exactly the mapped
\* signal, the child receives it once, and the reply, if wanted, is true.
MappedSignalRelayed ==
  (/\ cur.type = "signal"
   /\ cur.ok
   /\ cur.signal \in DOMAIN SyscallSignals
   /\ pc.main = "loop"
   /\ obs.childWas = "running")
  => /\ obs.signals = <<SyscallSignals[cur.signal]>>
     /\ obs.delivered = <<SyscallSignals[cur.signal]>>
     /\ obs.replies = IF cur.want THEN <<TRUE>> ELSE <<>>

\* USR1 has been relayed to a running child and the request replied true
Usr1Relayed ==
  /\ cur = SignalReq(TRUE, "USR1")
  /\ pc.main = "loop"
  /\ obs.childWas = "running"
  /\ obs.delivered = <<10>>
  /\ obs.replies = <<TRUE>>

\* C7: a signal request handled when the session has no command, or naming
\* a signal SyscallSignals does not map, never reaches runner.Signal, and is
\* replied true if it wants a reply.
UnmappedOrIdleSignalIgnored ==
  (/\ cur.type = "signal"
   /\ cur.ok
   /\ Handled
   /\ ~obs.hadCommand \/ cur.signal \notin DOMAIN SyscallSignals)
  => /\ obs.signals = <<>>
     /\ obs.delivered = <<>>
     /\ obs.replies = IF cur.want THEN <<TRUE>> ELSE <<>>

\* C10: the step that handles a request of an unknown type replies false
\* once if the request wants a reply and not at all otherwise, changes none
\* of env, command, allocPty, ptyRequest, ptyMaster and complete, does
\* nothing on the channel, and leaves the request loop ready for the next
\* request.
UnknownRequestStep ==
  /\ pc.main = "dispatch"
  /\ cur.type \notin KnownTypes
  /\ pc'.main # pc.main

UnknownRequestRefused ==
  [][UnknownRequestStep =>
       /\ obs.replies = <<>>
       /\ obs'.replies = IF cur.want THEN <<FALSE>> ELSE <<>>
       /\ UNCHANGED <<env, command, cmd, allocPty, ptyRequest, ptyMaster,
                      complete, chanLog, streamEnded, hist>>
       /\ pc'.main = "loop"
       /\ ~panicked']_vars

\* an unknown request that wanted a reply has been refused, and the loop
\* waits for the next request
UnknownRefusedOnce ==
  /\ cur = Req("bogus", TRUE)
  /\ pc.main = "loop"
  /\ obs.replies = <<FALSE>>
  /\ ~streamEnded

(***************************************************************************)
(* The environment of the child: a session whose client sends env and      *)
(* pty-req requests with names and values of its choice, then shell.       *)
(***************************************************************************)
EnvRequests ==
  {EnvReq(TRUE, n, v) : n \in {sA, sHOME, sUSER, sHomeInjected},
                        v \in {sOne, sEvil}}
    \cup {PtyReq(TRUE, sXterm, 80, 24, sModes), Req("shell", TRUE)}

NextEnv ==
  \/ Receive(EnvRequests)
  \/ StreamEnd
  \/ HandleEnvironmentRequest
  \/ HandlePtyRequest
  \/ HandleShellRequest
  \/ ExecuteShell
  \/ SendExitMessage("main")
  \/ SendExitMessage("waiter")
  \/ Wait
  \/ ChildExit
  \/ DestroyLock("main")
  \/ DestroyLock("waiter")
  \/ DestroyFinish("main")
  \/ DestroyFinish("waiter")
  \/ CopierFromPtyDone
  \/ CopierFromPtyCloseWrite
  \/ CopierToChildDone("toPty")
  \/ CopierToChildDone("toStdin")

SpecEnv == Init /\ [][NextEnv]_vars

\* the entries of the child's environment that set the variable n
EntriesFor(n) == {i \in DOMAIN cmd.env : EntryName(cmd.env[i]) = n}

\* C8: the environment of every command created contains PATH, LANG, HOME
\* and USER, and has exactly one entry for HOME and one for USER, which
\* carry the host process's values.
ChildEnvHostHomeUser ==
  command # "nil" =>
    /\ \A n \in {sPATH, sLANG, sHOME, sUSER} : EntriesFor(n) # {}
    /\ Cardinality(EntriesFor(sHOME)) = 1
    /\ Cardinality(EntriesFor(sUSER)) = 1
    /\ \A i \in EntriesFor(sHOME) : EntryValue(cmd.env[i]) = HostHome
    /\ \A i \in EntriesFor(sUSER) : EntryValue(cmd.env[i]) = HostUser

(***************************************************************************)
(* The termios modelist parser on every modelist of a bounded set.         *)
(***************************************************************************)
ByteSamples == {0, 1, 100, 160}

\* complete opcode/value records a modelist may start with: opcode 100 has
\* no setter, opcode 1 (VINTR) has one
ModelistPrefixes == {<<>>, <<100, 0, 0, 0, 1>>, <<1, 0, 0, 1, 0>>}

ModelistTails == UNION {[1..n -> ByteSamples] : n \in 0..MaxModelist}

InitModelist ==
  /\ InitSession
  /\ ml \in {p \o t : p \in ModelistPrefixes, t \in ModelistTails}
  /\ mst = ModeStart

\* one iteration of setTerminalAttributes on ml
ParseStep ==
  /\ ~mst.done
  /\ mst' = ModeStep(ml, mst)
  /\ UNCHANGED <<sessVars, ml>>

NextModelist == ParseStep

SpecModelist == InitModelist /\ [][NextModelist]_vars

IsEnd(opcode) == opcode = 0 \/ opcode >= 160

Last(q) == q[Len(q)]

InSeq(x, q) == \E i \in DOMAIN q : q[i] = x

PayloadTypes == {"env", "signal", "pty-req", "window-change", "exec"}

Malformed(type, want) == [Req(type, want) EXCEPT !.ok = FALSE]

MalformedRequests ==
  {Malformed(t, w) : t \in PayloadTypes, w \in BOOLEAN}
    \cup {PtyReq(TRUE, sXterm, 80, 24, sModes), Req("shell", TRUE),
          EnvReq(TRUE, sA, sOne)}

NextMalformed ==
  \/ Receive(MalformedRequests)
  \/ StreamEnd
  \/ HandleEnvironmentRequest
  \/ HandleSignalRequest
  \/ HandlePtyRequest
  \/ HandleWindowChangeRequest
  \/ HandleExecRequest
  \/ HandleShellRequest
  \/ ExecuteShell
  \/ SendExitMessage("main")
  \/ SendExitMessage("waiter")
  \/ Wait
  \/ ChildExit
  \/ DestroyLock("main")
  \/ DestroyLock("waiter")
  \/ DestroyFinish("main")
  \/ DestroyFinish("waiter")
  \/ CopierFromPtyDone
  \/ CopierFromPtyCloseWrite
  \/ CopierToChildDone("toPty")
  \/ CopierToChildDone("toStdin")

SpecMalformed == Init /\ [][NextMalformed]_vars

\* the request loop finishes a request whose payload was rejected
MalformedStep ==
  /\ pc.main = "dispatch"
  /\ cur.type \in PayloadTypes
  /\ ~cur.ok
  /\ pc'.main # pc.main

\* C11: an env, signal, pty-req, window-change or exec request whose payload
\* cannot be unmarshalled is replied false exactly when it wants a reply,
\* changes nothing of the session (no env entry, no signal, no PTY settings,
\* no command) and leaves the request loop ready for the next request.
MalformedRefused ==
  [][MalformedStep =>
       /\ obs'.replies = (IF cur.want THEN <<FALSE>> ELSE <<>>)
       /\ obs'.signals = <<>>
       /\ obs'.scp = <<>>
       /\ ~obs'.created
       /\ UNCHANGED <<env, command, cmd, allocPty, ptyRequest, ptyMaster,
                      winsize, termios, child, chanLog, hist, complete>>
       /\ pc'.main = "loop"
       /\ ~panicked']_vars

\* a malformed exec was refused while the child of an earlier shell request
\* runs on a PTY, and the loop is back waiting
MalformedExecRefused ==
  /\ pc.main = "loop"
  /\ cur = Malformed("exec", TRUE)
  /\ obs.replies = <<FALSE>>
  /\ command = "started"
  /\ child.state = "running"
  /\ allocPty


(***************************************************************************)
(* A launch that fails.                                                    *)
(***************************************************************************)
\* executeShell is still in its failure path: the exit message or the destroy
\* that follows it
LaunchFailureRunning ==
  \/ pc.main = "sendExit"
  \/ pc.main \in {"destroy", "destroying"} /\ ~streamEnded

\* C12: when launching the child failed (the PTY or the stdin pipe could not
\* be opened, or Start returned an error), exit-status 255 is sent and the
\* session is then destroyed: complete is set, the channel is closed after the
\* exit message, an opened PTY master is closed, and no process is waited for
\* (no child, no waiter; the destroy only joins a copier whose PTY has no
\* other end).
LaunchFailureDestroys ==
  /\ (command = "unstarted" /\ ~LaunchFailureRunning) =>
       /\ complete
       /\ chanLog = <<Msg("exit-status", 255, "", FALSE), CloseEvent>>
       /\ ptyMaster # "open"
       /\ hist.closer = "launch-failure"
       /\ hist.starts = 0
       /\ child.state = "none"
       /\ pc.waiter = "none"
  /\ (command = "unstarted" /\ LaunchFailureRunning) =>
       /\ child.state = "none"
       /\ pc.waiter = "none"
       /\ (pc.main = "destroying" /\ ~panicked) =>
            (ENABLED DestroyFinish("main") \/ ENABLED CopierFromPtyDone)

\* Start failed on an allocated PTY: the session is complete and the PTY
\* master closed, the request loop is back waiting
StartFailedPtyClosed ==
  /\ command = "unstarted"
  /\ pc.main = "loop"
  /\ complete
  /\ ptyMaster = "closed"
  /\ obs.exits = 1
  /\ obs.destroys = 1


(***************************************************************************)
(* The exit message for every wait result.                                 *)
(***************************************************************************)
MaxSignal == 31

ExitCodes == {1, 2, 126, 127, 255}

\* what Wait can return: nil, exit codes, every signal with and without a
\* core dump, an unreadable status, another error
ExitErrors ==
  {NilErr, OtherErr, Err("unknownStatus", 0, 0, FALSE)}
    \cup {Err("exited", c, 0, FALSE) : c \in ExitCodes}
    \cup {Err("signaled", 0, sg, core) : sg \in 1..MaxSignal, core \in BOOLEAN}

NextExit ==
  \/ Receive({Req("shell", TRUE)})
  \/ StreamEnd
  \/ HandleShellRequest
  \/ ExecuteShell
  \/ ChildExits(ExitErrors)
  \/ Wait
  \/ SendExitMessage("main")
  \/ SendExitMessage("waiter")
  \/ DestroyLock("main")
  \/ DestroyLock("waiter")
  \/ DestroyFinish("main")
  \/ DestroyFinish("waiter")
  \/ CopierToChildDone("toStdin")

SpecExit == Init /\ [][NextExit]_vars

\* C13: the exit message is determined by the wait result: nil gives
\* exit-status 0; an exit error with exit code c gives exit-status c; a
\* signaled status gives exit-signal with the SSH name of the signal, the
\* status's core-dump flag and empty Error and Lang; every other error gives
\* exit-status 255; all with want_reply false.
ExitMessageByResult ==
  /\ pc.waiter \in {"destroy", "destroying", "done"} => exitErr = child.result
  /\ \A i \in ExitIndexes :
       LET m == chanLog[i]
           e == exitErr
       IN  /\ ~m.want
           /\ e.kind = "nil" => m.kind = "exit-status" /\ m.status = 0
           /\ e.kind = "exited" => m.kind = "exit-status" /\ m.status = e.code
           /\ e.kind = "signaled" =>
                /\ m.kind = "exit-signal"
                /\ m.signal = SSHSignalName(e.sig)
                /\ e.sig = 9 => m.signal = "KILL"
                /\ e.sig = 15 => m.signal = "TERM"
                /\ m.core = e.core
                /\ m.error = ""
                /\ m.lang = ""
           /\ e.kind \notin {"nil", "exited", "signaled"} =>
                m.kind = "exit-status" /\ m.status = 255

\* the child was killed with a core dump and exit-signal KILL was sent
KilledWithCoreReported ==
  /\ child.state = "exited"
  /\ child.result = Err("signaled", 0, 9, TRUE)
  /\ \E i \in ExitIndexes :
       /\ chanLog[i].kind = "exit-signal"
       /\ chanLog[i].signal = "KILL"
       /\ chanLog[i].core


(***************************************************************************)
(* Progress.  The tasks of the program take their steps: the request loop, *)
(* the waiter, destroy, and a copier whose source has ended.  Nothing is   *)
(* assumed of the peer and of the child: requests may stop coming, the     *)
(* stream may stay open, the child may never exit, and a PTY master reads  *)
(* end of file only once every process holding the slave has closed it,    *)
(* which is certain only when no child was started.                        *)
(***************************************************************************)
LiveRequests ==
  {PtyReq(TRUE, sXterm, 80, 24, sModes), Req("shell", TRUE),
   WindowReq(TRUE, 132, 40), SignalReq(TRUE, "USR1")}

\* the PTY master reads end of file at once: the slave was closed by
\* runWithPty and no child holds it
CopierFromPtyNoChild == CopierFromPtyDone /\ child.state = "none"

NextLive ==
  \/ Receive(LiveRequests)
  \/ StreamEnd
  \/ HandleSignalRequest
  \/ HandlePtyRequest
  \/ HandleWindowChangeRequest
  \/ HandleShellRequest
  \/ ExecuteShell
  \/ SendExitMessage("main")
  \/ SendExitMessage("waiter")
  \/ Wait
  \/ ChildExit
  \/ DestroyLock("main")
  \/ DestroyLock("waiter")
  \/ DestroyFinish("main")
  \/ DestroyFinish("waiter")
  \/ CopierFromPtyDone
  \/ CopierFromPtyCloseWrite
  \/ CopierToChildDone("toPty")
  \/ CopierToChildDone("toStdin")

Fairness ==
  /\ WF_vars(HandleSignalRequest)
  /\ WF_vars(HandlePtyRequest)
  /\ WF_vars(HandleWindowChangeRequest)
  /\ WF_vars(HandleShellRequest)
  /\ WF_vars(ExecuteShell)
  /\ WF_vars(SendExitMessage("main"))
  /\ WF_vars(SendExitMessage("waiter"))
  /\ WF_vars(Wait)
  /\ WF_vars(DestroyLock("main"))
  /\ WF_vars(DestroyLock("waiter"))
  /\ WF_vars(DestroyFinish("main"))
  /\ WF_vars(DestroyFinish("waiter"))
  /\ WF_vars(CopierFromPtyNoChild)
  /\ WF_vars(CopierFromPtyCloseWrite)
  /\ WF_vars(CopierToChildDone("toPty"))
  /\ WF_vars(CopierToChildDone("toStdin"))

SpecLive == Init /\ [][NextLive]_vars /\ Fairness

\* the same, for a child that leaves no process behind: once it has exited
\* the PTY master reads end of file
CopierFromPtyExited == CopierFromPtyDone /\ child.state = "exited"

SpecDrained ==
  Init /\ [][NextLive]_vars /\ Fairness /\ WF_vars(CopierFromPtyExited)

\* C14: once the request stream has ended (the peer closed the channel),
\* destroy eventually completes: complete is set, the channel closed and the
\* PTY master not left open, with or without a PTY and even if the child
\* never exits on its own.
SessionEndsWithStream ==
  streamEnded ~> (complete /\ ptyMaster # "open")

\* without a PTY the same does hold
SessionEndsWithoutPty ==
  (streamEnded /\ ~allocPty) ~> complete

\* C15: every request delivered on the open stream after a child was started
\* is eventually handled and replied to, whether the child still runs, never
\* exits, or has exited while the copier still drains the PTY master.
RequestsNeverBlocked ==
  (pc.main = "dispatch" /\ command = "started")
    ~> (pc.main = "loop" /\ Len(obs.replies) = 1)

\* a request waits for the mutex that the waiter's destroy holds while the
\* PTY master is drained
RequestBehindDestroy ==
  /\ pc.main = "dispatch"
  /\ cur.type = "window-change"
  /\ mutex = "waiter"
  /\ pc.waiter = "destroying"
  /\ child.state = "exited"
  /\ wg = 1
  /\ ~streamEnded


(***************************************************************************)
(* The copiers at the end of destroy.                                      *)
(***************************************************************************)
\* C16 as stated: when destroy has completed, every background copier the
\* session started has been joined, that is has terminated: the copier from
\* the PTY master to the channel, the copier from the channel to the PTY
\* master, and the copier from the channel to the child's stdin.
AllCopiersJoined ==
  complete => \A c \in DOMAIN copiers : copiers[c] # "running"

\* C16: when destroy has completed, the wait group is empty and the copier
\* from the PTY master to the channel, its only member, has returned from its
\* copy; the two copiers that read the channel are not in the wait group and
\* may still run.
PtyCopierJoined ==
  complete => (wg = 0 /\ copiers.fromPty # "running")

\* destroy completed after the copier from the PTY master had returned, while
\* the copier into the PTY master is still running
DestroyedWithCopierRunning ==
  /\ complete
  /\ hist.closer = "waiter"
  /\ copiers.fromPty \in {"closeWrite", "done"}
  /\ copiers.toPty = "running"


(***************************************************************************)
(* Two sessions of one handler.  newSession stores handler.defaultEnv in   *)
(* the env field of every session, so both sessions write and read the one *)
(* map env, each under its own mutex.  The second session is reduced to    *)
(* what touches the map: env, pty-req and the createCommand of shell.      *)
(***************************************************************************)
MaxOtherRequests == 2

sB == <<"B">>

sVt100 == <<"v", "t", "1", "0", "0">>

SharedRequests == {EnvReq(TRUE, sA, sOne), Req("shell", TRUE)}

OtherRequests ==
  {EnvReq(TRUE, sB, sEvil), PtyReq(TRUE, sVt100, 80, 24, sModes),
   Req("shell", TRUE)}

\* a request arrives on the second session's stream
OtherReceive ==
  /\ ~panicked
  /\ other.pc = "loop"
  /\ other.handled < MaxOtherRequests
  /\ \E r \in OtherRequests :
       other' = [other EXCEPT !.pc = "dispatch", !.cur = r,
                              !.handled = @ + 1]
  /\ UNCHANGED <<pc, cur, handled, obs, streamEnded, env, command, cmd,
                 allocPty, ptyRequest, ptyMaster, complete, wg, mutex, child,
                 exitErr, copiers, chanLog, hist, winsize, termios, panicked,
                 ml, mst, proc, plugin>>

\* the key and the value an env or pty-req request stores in the map
MapKey(req) == IF req.type = "env" THEN req.name ELSE sTERM

MapValue(req) == IF req.type = "env" THEN req.value ELSE req.name

\* the second session's handleEnvironmentRequest or handlePtyRequest has taken
\* its own mutex and begins the assignment to the map
OtherWriteBegin ==
  /\ ~panicked
  /\ other.pc = "dispatch"
  /\ other.cur.type \in {"env", "pty-req"}
  /\ other' = [other EXCEPT !.pc = "writing"]
  /\ UNCHANGED <<pc, cur, handled, obs, streamEnded, env, command, cmd,
                 allocPty, ptyRequest, ptyMaster, complete, wg, mutex, child,
                 exitErr, copiers, chanLog, hist, winsize, termios, panicked,
                 ml, mst, proc, plugin>>

\* the assignment is done
OtherWriteEnd ==
  /\ ~panicked
  /\ other.pc = "writing"
  /\ env' = MapSet(env, MapKey(other.cur), MapValue(other.cur))
  /\ other' = [MapWritten(other, "other", MapKey(other.cur))
                 EXCEPT !.pc = "loop"]
  /\ UNCHANGED <<pc, cur, handled, obs, streamEnded, command, cmd, allocPty,
                 ptyRequest, ptyMaster, complete, wg, mutex, child, exitErr,
                 copiers, chanLog, hist, winsize, termios, panicked, ml, mst, proc, plugin>>

\* the second session's shell request: createCommand builds the child's
\* environment from the map
OtherShell ==
  /\ ~panicked
  /\ other.pc = "dispatch"
  /\ other.cur.type = "shell"
  /\ \E ord \in Orderings(DOMAIN env) :
       other' = [other EXCEPT
                   !.pc = "loop",
                   !.command = IF CommandFree(@) THEN "created" ELSE @,
                   !.cmdEnv = IF CommandFree(other.command)
                              THEN environment(env, ord) ELSE @]
  /\ UNCHANGED <<pc, cur, handled, obs, streamEnded, env, command, cmd,
                 allocPty, ptyRequest, ptyMaster, complete, wg, mutex, child,
                 exitErr, copiers, chanLog, hist, winsize, termios, panicked,
                 ml, mst, proc, plugin>>

\* the first session with env and shell requests and a child that runs on;
\* the second session beside it
NextShared ==
  \/ Receive(SharedRequests)
  \/ StreamEnd
  \/ HandleEnvironmentRequest
  \/ HandleShellRequest
  \/ ExecuteShell
  \/ SendExitMessage("main")
  \/ DestroyLock("main")
  \/ DestroyFinish("main")
  \/ CopierToChildDone("toStdin")
  \/ OtherReceive
  \/ OtherWriteBegin
  \/ OtherWriteEnd
  \/ OtherShell

SpecShared == Init /\ [][NextShared]_vars

\* the names of the entries of a child environment
EnvNames(entries) == {EntryName(entries[i]) : i \in DOMAIN entries}

\* C17: of two sessions of one handler, an env or pty-req request of one
\* never changes the env map or the child environment of the other, and no
\* env map is written under two different mutexes.
SessionsIsolated ==
  /\ [][other.pc = "writing" /\ other'.pc = "loop" => env' = env]_vars
  /\ [](EnvNames(cmd.env) \cap (other.wrote \ other.firstWrote) = {})
  /\ [](EnvNames(other.cmdEnv) \cap (other.firstWrote \ other.wrote) = {})
  /\ [](Cardinality(other.writers) <= 1)


(***************************************************************************)
(* cmd/ssh-proxy: main and configure.  lager's Logger.Fatal logs and then  *)
(* panics; a Go process that panics exits with status 2.                   *)
(***************************************************************************)
handlerVars ==
  <<pc, cur, handled, obs, streamEnded, env, command, cmd, allocPty,
    ptyRequest, ptyMaster, complete, wg, mutex, child, exitErr, copiers,
    chanLog, hist, winsize, termios, panicked, ml, mst, other, plugin>>

FlagSets ==
  [bbsAddress : {<<>>, sNoScheme, sBadEscape, sHttp, sHttps},
   ccAPIURL : {<<>>, sBadEscape, sHttp},
   hostKey : {<<>>, sNotPem, sPemKey},
   enableCFAuth : BOOLEAN, enableDiegoAuth : BOOLEAN,
   secureClientOk : BOOLEAN, debugAddr : BOOLEAN]

InitMain ==
  /\ proc \in {ProcStart(f) : f \in FlagSets}
  /\ plugin = PluginIdle
  /\ InitFields
  /\ ml = <<>>
  /\ mst = ModeStart

\* logger.Fatal
Fatal(p) == [p EXCEPT !.pc = "exited", !.exit = 2, !.how = "panic"]

\* os.Exit(code)
Exit(p, code) == [p EXCEPT !.pc = "exited", !.exit = code, !.how = "os.Exit"]

\* main up to the call of configure: flags, logger, dropsonde
MainStart ==
  /\ proc.pc = "main"
  /\ proc' = [proc EXCEPT !.pc = "checkBbs"]
  /\ UNCHANGED handlerVars

\* configure: bbsAddress is required
CheckBbsAddress ==
  /\ proc.pc = "checkBbs"
  /\ proc' = IF proc.flags.bbsAddress = <<>> THEN Fatal(proc)
             ELSE [proc EXCEPT !.pc = "parseBbs"]
  /\ UNCHANGED handlerVars

ParseBbsAddress ==
  /\ proc.pc = "parseBbs"
  /\ proc' = IF UrlParseFails(proc.flags.bbsAddress) THEN Fatal(proc)
             ELSE [proc EXCEPT !.pc = "parseCc"]
  /\ UNCHANGED handlerVars

ParseCcApiUrl ==
  /\ proc.pc = "parseCc"
  /\ proc' = IF proc.flags.ccAPIURL # <<>>
                /\ UrlParseFails(proc.flags.ccAPIURL)
             THEN Fatal(proc)
             ELSE [proc EXCEPT !.pc = "bbsClient"]
  /\ UNCHANGED handlerVars

InitializeBBSClient ==
  /\ proc.pc = "bbsClient"
  /\ proc' =
       IF UrlParseFails(proc.flags.bbsAddress) THEN Fatal(proc)
       ELSE IF UrlScheme(proc.flags.bbsAddress) # <<"h", "t", "t", "p", "s">>
       THEN [proc EXCEPT !.pc = "authens"]
       ELSE IF ~proc.flags.secureClientOk THEN Fatal(proc)
       ELSE [proc EXCEPT !.pc = "authens"]
  /\ UNCHANGED handlerVars

BuildAuthenticators ==
  /\ proc.pc = "authens"
  /\ proc' =
       [proc EXCEPT
          !.pc = "checkHostKey",
          !.authens =
            (IF proc.flags.enableDiegoAuth THEN <<"diego">> ELSE <<>>)
              \o (IF proc.flags.ccAPIURL # <<>> /\ proc.flags.enableCFAuth
                  THEN <<"cf">> ELSE <<>>)]
  /\ UNCHANGED handlerVars

CheckHostKey ==
  /\ proc.pc = "checkHostKey"
  /\ proc' = IF proc.flags.hostKey = <<>> THEN Fatal(proc)
             ELSE [proc EXCEPT !.pc = "parseHostKey"]
  /\ UNCHANGED handlerVars

\* parsePrivateKey, AddHostKey and configure's return
ParseHostKey ==
  /\ proc.pc = "parseHostKey"
  /\ proc' = IF ~KeyParses(proc.flags.hostKey) THEN Fatal(proc)
             ELSE [proc EXCEPT !.pc = "configured", !.configured = TRUE,
                               !.configErr = FALSE]
  /\ UNCHANGED handlerVars

\* main after configure: the error test, then proxy.New, server.NewServer
\* and the members of the group
BuildServer ==
  /\ proc.pc = "configured"
  /\ proc' =
       IF proc.configErr THEN Exit(proc, 1)
       ELSE [proc EXCEPT
               !.pc = "invoke", !.built = TRUE,
               !.members = (IF proc.flags.debugAddr
                            THEN <<"debug-server">> ELSE <<>>)
                             \o <<"ssh-proxy">>]
  /\ UNCHANGED handlerVars

\* ifrit.Invoke: the server runs and accepts connections
Invoke ==
  /\ proc.pc = "invoke"
  /\ proc' = [proc EXCEPT !.pc = "serving", !.running = TRUE]
  /\ UNCHANGED handlerVars

\* monitor.Wait delivers the group's result
MonitorExit ==
  /\ proc.pc = "serving"
  /\ proc.how = "none"
  /\ \E failed \in BOOLEAN : proc' = Exit(proc, IF failed THEN 1 ELSE 0)
  /\ UNCHANGED handlerVars

NextMain ==
  \/ MainStart
  \/ CheckBbsAddress
  \/ ParseBbsAddress
  \/ ParseCcApiUrl
  \/ InitializeBBSClient
  \/ BuildAuthenticators
  \/ CheckHostKey
  \/ ParseHostKey
  \/ BuildServer
  \/ Invoke
  \/ MonitorExit

SpecMain == InitMain /\ [][NextMain]_vars

\* the flags hold one of the configuration errors
ConfigError(f) ==
  \/ f.bbsAddress = <<>>
  \/ UrlParseFails(f.bbsAddress)
  \/ f.hostKey = <<>>
  \/ ~KeyParses(f.hostKey)

\* C18: with an empty or unparseable bbsAddress or an empty or unparseable
\* hostKey the SSH server is never constructed or run, and the process exits
\* with code 1.
ConfigErrorExitsOne ==
  ConfigError(proc.flags) =>
    /\ ~proc.built
    /\ ~proc.running
    /\ proc.pc = "exited" => proc.exit = 1

\* what does hold: the server is never constructed or run, and the process
\* ends by the panic of logger.Fatal
ConfigErrorPanics ==
  ConfigError(proc.flags) =>
    /\ ~proc.built
    /\ ~proc.running
    /\ proc.pc = "exited" => (proc.exit = 2 /\ proc.how = "panic")


(***************************************************************************)
(* The window size of the PTY.                                             *)
(***************************************************************************)
WindowRequests ==
  {PtyReq(TRUE, sXterm, 80, 24, sModes), PtyReq(TRUE, sXterm, 100, 30, sModes),
   WindowReq(TRUE, 132, 40), WindowReq(TRUE, 65616, 50), Req("shell", TRUE)}

NextWindow ==
  \/ Receive(WindowRequests)
  \/ StreamEnd
  \/ HandlePtyRequest
  \/ HandleWindowChangeRequest
  \/ HandleShellRequest
  \/ ExecuteShell
  \/ SendExitMessage("main")
  \/ SendExitMessage("waiter")
  \/ Wait
  \/ ChildExit
  \/ DestroyLock("main")
  \/ DestroyLock("waiter")
  \/ DestroyFinish("main")
  \/ DestroyFinish("waiter")
  \/ CopierFromPtyDone
  \/ CopierFromPtyCloseWrite
  \/ CopierToChildDone("toPty")
  \/ CopierToChildDone("toStdin")

SpecWindow == Init /\ [][NextWindow]_vars

\* a size as the 16-bit fields of the terminal's window size hold it
Size16(size) == <<size[1] % 65536, size[2] % 65536>>

\* C19 as stated: the window size of the live PTY is that of the most recent
\* size-bearing request, the last pty-req or window-change received after a
\* pty-req: at spawn, and after each window-change and each pty-req received
\* while the PTY is live.
WindowSizeIsLatest ==
  (ptyMaster = "open" /\ pc.main = "loop") => winsize = Size16(hist.lastSize)

\* C19: the window size of the live PTY is that of the most recent
\* size-bearing request other than a pty-req received once the PTY exists:
\* the stored size is applied at spawn and each window-change is applied to
\* the live PTY, while a pty-req received after the spawn is only stored and
\* leaves the live PTY as it is.
WindowSizeIsSettled ==
  /\ []((ptyMaster = "open" /\ pc.main = "loop") =>
          winsize = Size16(hist.settledSize))
  /\ [][(pc.main = "dispatch" /\ cur.type = "pty-req" /\ pc'.main = "loop") =>
          (winsize' = winsize /\ (cur.ok => ptyRequest'.cols = cur.cols))]_vars

\* a pty-req of 100x30 received while the PTY is live after a window-change
\* to 132x40: it is stored and the PTY keeps 132x40
LivePtyReqOnlyStored ==
  /\ ptyMaster = "open"
  /\ pc.main = "loop"
  /\ cur = PtyReq(TRUE, sXterm, 100, 30, sModes)
  /\ ptyRequest.cols = 100
  /\ winsize = <<132, 40>>


(***************************************************************************)
(* Signals and a command that was never started.                           *)
(***************************************************************************)
\* C20: the runner's Signal is only ever invoked on a command whose Start
\* has succeeded: no signal request reaches Signal for a command that was
\* created but whose launch failed, and so none dereferences its missing
\* process handle.
SignalOnlyAfterStart ==
  /\ (cur.type = "signal" /\ obs.signals # <<>>) => command = "started"
  /\ ~panicked


(***************************************************************************)
(* The PTY master after destroy.                                           *)
(***************************************************************************)
\* C21: once destroy has closed the PTY master no request handler operates
\* on it: a window-change request handled after the session is complete
\* issues no window-size ioctl on the closed master.
NoIoctlOnClosedMaster ==
  /\ \A i \in DOMAIN obs.ioctls : obs.ioctls[i][3] # "closed"
  /\ (cur.type = "window-change" /\ obs.hadCommand /\ complete
        /\ pc.main = "loop" /\ ptyMaster = "closed") => obs.ioctls = <<>>


(***************************************************************************)
(* Replies.  The SCP handler is an injected interface that is handed the   *)
(* request: it may reply to it or not.                                     *)
(***************************************************************************)
NextReplies ==
  \/ Receive(SessionRequests)
  \/ StreamEnd
  \/ HandleUnknown
  \/ HandleEnvironmentRequest
  \/ HandleSignalRequest
  \/ HandlePtyRequest
  \/ HandleWindowChangeRequest
  \/ HandleExec(ScpOutcomes)
  \/ HandleShellRequest
  \/ ExecuteShell
  \/ SendExitMessage("main")
  \/ SendExitMessage("waiter")
  \/ Wait
  \/ ChildExit
  \/ DestroyLock("main")
  \/ DestroyLock("waiter")
  \/ DestroyFinish("main")
  \/ DestroyFinish("waiter")
  \/ CopierFromPtyDone
  \/ CopierFromPtyCloseWrite
  \/ CopierToChildDone("toPty")
  \/ CopierToChildDone("toStdin")

SpecReplies == Init /\ [][NextReplies]_vars

\* the number of replies a request is due
RepliesDue(req) == IF req.want THEN 1 ELSE 0

\* the session is through with the request cur, or died handling it
RequestOver ==
  /\ cur # NoRequest
  /\ pc.main \notin {"dispatch", "executeShell"} \/ panicked

\* C22: every request the session handles receives exactly one reply when it
\* wants one and none when it does not; an exec request dispatched to the SCP
\* handler is not replied to again by the shell path.
OneReplyPerRequest ==
  /\ Len(obs.replies) <= RepliesDue(cur)
  /\ RequestOver => Len(obs.replies) = RepliesDue(cur)


(***************************************************************************)
(* The cf CLI plugin: SSHPlugin.GetMetadata and SSHPlugin.Run.  The        *)
(* operations of the cmd package are outside the sources: each is the name *)
(* of the function called and whether it returned an error.                *)
(***************************************************************************)
serverVars ==
  <<pc, cur, handled, obs, streamEnded, env, command, cmd, allocPty,
    ptyRequest, ptyMaster, complete, wg, mutex, child, exitErr, copiers,
    chanLog, hist, winsize, termios, panicked, ml, mst, other, proc>>

\* the command names GetMetadata lists
GetMetadata ==
  <<"ssh", "enable-ssh", "disable-ssh", "ssh-enabled", "allow-space-ssh",
    "disallow-space-ssh", "space-ssh-allowed">>

Advertised == {GetMetadata[i] : i \in DOMAIN GetMetadata}

InvalidCommand == "Invalid command"

\* the switch of Run: the function of the cmd package that args[0] selects,
\* or the failure of the default branch
RunSwitch(name) ==
  CASE name = "enable-ssh" -> "cmd.EnableSSH"
    [] name = "disable-ssh" -> "cmd.EnableSSH"
    [] name = "ssh-enabled" -> "cmd.SSHEnabled"
    [] name = "ssh" -> "cmd.SecureShell"
    [] OTHER -> InvalidCommand

\* SSHPlugin.Fail
Fail(out, message) == Append(out, <<"FAILED", message>>)

\* names the CLI can call Run with: the advertised ones, the message it
\* sends on uninstall, and others
CommandNames ==
  Advertised \cup {"CLI-MESSAGE-UNINSTALL", "help", "scp"}

CommandArgs == {<<>>, <<"app">>, <<"app", "-i", "1">>, <<"space">>}

InitPlugin ==
  /\ plugin \in {[PluginIdle EXCEPT !.pc = "run", !.args = <<n>> \o a] :
                   n \in CommandNames, a \in CommandArgs}
  /\ proc = ProcServing
  /\ InitFields
  /\ ml = <<>>
  /\ mst = ModeStart

\* Run's switch on args[0]
Dispatch ==
  /\ plugin.pc = "run"
  /\ LET op == RunSwitch(plugin.args[1])
     IN  plugin' =
           IF op = InvalidCommand
           THEN [plugin EXCEPT !.pc = "returned",
                               !.out = Fail(@, InvalidCommand)]
           ELSE [plugin EXCEPT !.op = op,
                               !.pc = IF op = "cmd.SecureShell" THEN "parse"
                                      ELSE "op"]
  /\ UNCHANGED serverVars

\* cmd.EnableSSH or cmd.SSHEnabled returns
OperationReturns ==
  /\ plugin.pc = "op"
  /\ \E failed \in BOOLEAN :
       plugin' = [plugin EXCEPT
                    !.pc = "returned",
                    !.out = IF failed THEN Fail(@, "error") ELSE @]
  /\ UNCHANGED serverVars

\* the ssh command: opts.Parse
SshParse ==
  /\ plugin.pc = "parse"
  /\ \E failed \in BOOLEAN :
       plugin' = IF failed
                 THEN [plugin EXCEPT !.pc = "returned",
                                     !.out = Append(Fail(@, "error"),
                                                    <<"usage">>)]
                 ELSE [plugin EXCEPT !.pc = "connect"]
  /\ UNCHANGED serverVars

\* secureShell.Connect
SshConnect ==
  /\ plugin.pc = "connect"
  /\ \E failed \in BOOLEAN :
       plugin' = IF failed
                 THEN [plugin EXCEPT !.pc = "returned",
                                     !.out = Fail(@, "error")]
                 ELSE [plugin EXCEPT !.pc = "forward"]
  /\ UNCHANGED serverVars

\* secureShell.LocalPortForward: on an error Run returns without a message
SshForward ==
  /\ plugin.pc = "forward"
  /\ \E failed \in BOOLEAN :
       plugin' = [plugin EXCEPT !.pc = IF failed THEN "returned"
                                       ELSE "session"]
  /\ UNCHANGED serverVars

\* what Wait or InteractiveSession return: nil, an *ssh.ExitError with its
\* status and signal, or another error
SessionResults ==
  {[kind |-> "nil", status |-> 0, signal |-> ""],
   [kind |-> "other", status |-> 0, signal |-> ""]}
    \cup [kind : {"exit"}, status : {0, 1, 255}, signal : {"", "KILL"}]

\* secureShell.Wait or secureShell.InteractiveSession and what follows
SshSession ==
  /\ plugin.pc = "session"
  /\ \E res \in SessionResults :
       plugin' =
         CASE res.kind = "nil" -> [plugin EXCEPT !.pc = "returned"]
           [] res.kind = "other" ->
                [plugin EXCEPT !.pc = "returned", !.out = Fail(@, "error")]
           [] res.kind = "exit" ->
                [plugin EXCEPT
                   !.pc = "exited",
                   !.exit = res.status,
                   !.out = IF res.signal # ""
                           THEN Append(@, <<"terminated", res.signal,
                                            res.status>>)
                           ELSE @]
  /\ UNCHANGED serverVars

NextPlugin ==
  \/ Dispatch
  \/ OperationReturns
  \/ SshParse
  \/ SshConnect
  \/ SshForward
  \/ SshSession

SpecPlugin == InitPlugin /\ [][NextPlugin]_vars

\* Run is past its switch
Dispatched == plugin.pc \notin {"idle", "run"}

\* C23: every command name GetMetadata advertises is dispatched by Run to its
\* own operation (disable-ssh to a disable operation, not to the one
\* enable-ssh runs), and only names that are not advertised end in the
\* "Invalid command" failure.
AdvertisedAreDispatched ==
  Dispatched =>
    LET name == plugin.args[1]
        invalid == plugin.out # <<>>
                     /\ plugin.out[1] = <<"FAILED", InvalidCommand>>
    IN  /\ invalid => name \notin Advertised
        /\ name \in Advertised =>
             /\ plugin.op # "none"
             /\ \A m \in Advertised \ {name} : plugin.op # RunSwitch(m)

====
